---- MODULE Spec2Model ----
(***************************************************************************)
(* certstatus: the command line tool of main.go.  One run of main loads a  *)
(* certificate from a file, resolves its issuer over HTTP by following the *)
(* certificate's IssuingCertificateURL list, and then starts the OCSP or   *)
(* the CRL query.  The file system and the network are the environment:    *)
(* the content of the file and the answer to each GET are drawn when the   *)
(* program reads them.                                                     *)
(***************************************************************************)
EXTENDS Naturals, Sequences, FiniteSets

VARIABLES
    pc,        \* position of main: start, read_ret, iss_loop, iss_post, iss_ret, ocsp, crl, exited
    args,      \* os.Args[1:], the positional arguments
    cert,      \* main's cert (NoCert is Go's nil)
    issuer,    \* main's issuer
    err,       \* main's err, the error of the last core call
    i,         \* getIssuerCertificate: index of the next URL of the range loop
    issCert,   \* getIssuerCertificate: local issCert
    gets,      \* history: every client.Get issued, in order, with what came back
    resps,     \* per response obtained from a successful Get: how often its body was closed
    defers,    \* getIssuerCertificate: the deferred closures, by response index
    stdout,    \* lines written to the output stream
    stderr,    \* lines written to the error stream, with the function that wrote them
    queries,   \* history: revocation calls started (getOCSPResponse, GetCRLResponse)
    exit,      \* process exit status, Running while the process runs
    input,     \* certificateFromBytes alone: the buffer it is given
    loaded     \* certificateFromBytes alone: what it returned

vars == <<pc, args, cert, issuer, err, i, issCert, gets, resps, defers,
          stdout, stderr, queries, exit, input, loaded>>

(* ------------------------------ bounds -------------------------------- *)
MaxUrls == 2     \* longest IssuingCertificateURL list
MaxSegs == 2     \* longest buffer, in segments

(* --------------------------- error values ----------------------------- *)
Nil == "nil"
errFailedToGetResource == "failed to get resource"
errFailedToReadCertificate == "failed to read certificate"
errFailedToReadResponseBody == "failed to response body"
errNoCertificate == "no certificate"
errNoIssuerCertificate == "no issuer certificate"
errX509 == "x509: malformed certificate"
errReadFile == "open: no such file or directory"
errRevocation == "revocation query failed"

(* ---------------------------- certificates ---------------------------- *)
URLs == {"u1", "u2"}
UrlLists == UNION {[1..n -> URLs] : n \in 0..MaxUrls}
NoCert == [name |-> "nil", aia |-> <<>>]
LeafCerts == {[name |-> "leaf", aia |-> l] : l \in UrlLists}
IssuerCerts == {[name |-> n, aia |-> <<>>] : n \in {"ca1", "ca2"}}

(* ------------------------------ buffers ------------------------------- *)
(* A byte buffer is a sequence of segments: bytes that are no PEM armor    *)
(* (junk, or the DER encoding of a certificate) and well-formed PEM blocks *)
(* with a label and a payload, itself a buffer without armor.              *)
PemTypes == {"CERTIFICATE", "PRIVATE KEY"}
Junk == [kind |-> "junk", type |-> "", cert |-> NoCert, bytes |-> <<>>]
Der(c) == [kind |-> "der", type |-> "", cert |-> c, bytes |-> <<>>]
Pem(t, b) == [kind |-> "pem", type |-> t, cert |-> NoCert, bytes |-> b]
RawSegs(C) == {Junk} \cup {Der(c) : c \in C}
Payloads(C) == {<<s>> : s \in RawSegs(C)}
PemSegs(C) == {Pem(t, b) : t \in PemTypes, b \in Payloads(C)}
Buffers(C) == UNION {[1..n -> RawSegs(C) \cup PemSegs(C)] : n \in 0..MaxSegs}

(* pem.Decode: the first PEM block of data and what follows it; without a  *)
(* block, nil and the whole of data.                                        *)
pemDecode(data) ==
    LET idx == {k \in 1..Len(data) : data[k].kind = "pem"}
    IN  IF idx = {}
        THEN [found |-> FALSE, block |-> Junk, rest |-> data]
        ELSE LET k == CHOOSE m \in idx : \A n \in idx : m <= n
             IN  [found |-> TRUE, block |-> data[k],
                  rest |-> SubSeq(data, k + 1, Len(data))]

(* x509.ParseCertificate: exactly one DER certificate, no trailing data.   *)
x509ParseCertificate(der) ==
    IF Len(der) = 1 /\ der[1].kind = "der"
    THEN [cert |-> der[1].cert, err |-> Nil]
    ELSE [cert |-> NoCert, err |-> errX509]

(* certificateFromBytes with the label check left out *)
certificateFromBytesNoLabelCheck(bytes) ==
    LET d == pemDecode(bytes)
        b == IF d.found THEN d.block.bytes ELSE d.rest
        r == x509ParseCertificate(b)
    IN  [cert |-> r.cert, err |-> r.err, parsed |-> <<b>>]

(* certificateFromBytes; parsed is the history of the buffers handed to    *)
(* x509.ParseCertificate.                                                   *)
certificateFromBytes(bytes) ==
    LET d == pemDecode(bytes)
    IN  IF d.found /\ d.block.type # "CERTIFICATE"
        THEN [cert |-> NoCert, err |-> errNoCertificate, parsed |-> <<>>]
        ELSE LET b == IF d.found THEN d.block.bytes ELSE d.rest
                 r == x509ParseCertificate(b)
             IN  [cert |-> r.cert, err |-> r.err, parsed |-> <<b>>]

(* ------------------------- streams and files -------------------------- *)
Usage == "usage: <prog> <command> <pem>"
Line(by, text) == [by |-> by, prefix |-> "[error]", text |-> text]
Path == "cert.pem"
Commands == {"ocsp", "crl", "foo"}
ArgLists == {<<>>} \cup {<<c>> : c \in Commands} \cup {<<c, Path>> : c \in Commands}
Unreadable == [ok |-> FALSE, data |-> <<>>]
Files == {Unreadable} \cup {[ok |-> TRUE, data |-> b] : b \in Buffers(LeafCerts)}
Running == <<>>
NotLoaded == [done |-> FALSE, cert |-> NoCert, err |-> Nil, parsed |-> <<>>]

(* readCertificate that reports through its return value alone *)
readCertificateSilent(f) ==
    IF ~f.ok
    THEN [cert |-> NoCert, err |-> errFailedToReadCertificate, log |-> <<>>]
    ELSE LET r == certificateFromBytes(f.data)
         IN  IF r.err # Nil
             THEN [cert |-> NoCert, err |-> errFailedToReadCertificate, log |-> <<>>]
             ELSE [cert |-> r.cert, err |-> Nil, log |-> <<>>]

(* readCertificate on the file f at its path; log is what it writes to     *)
(* os.Stderr itself.                                                        *)
readCertificate(f) ==
    IF ~f.ok
    THEN [cert |-> NoCert, err |-> errFailedToReadCertificate,
          log |-> <<Line("readCertificate", errReadFile)>>]
    ELSE LET r == certificateFromBytes(f.data)
         IN  IF r.err # Nil
             THEN [cert |-> NoCert, err |-> errFailedToReadCertificate,
                   log |-> <<Line("readCertificate", r.err)>>]
             ELSE [cert |-> r.cert, err |-> Nil, log |-> <<>>]

(* the deferred closures run at return: each closes its response body *)
RunDefers(rs, ds) ==
    [k \in 1..Len(rs) |-> rs[k] + Cardinality({j \in 1..Len(ds) : ds[j] = k})]

Got(u, status, cerr, c) == [url |-> u, status |-> status, cerr |-> cerr, cert |-> c]

(* ------------------------------- main --------------------------------- *)
Init ==
    /\ pc = "start"
    /\ args \in ArgLists
    /\ cert = NoCert
    /\ issuer = NoCert
    /\ err = Nil
    /\ i = 1
    /\ issCert = NoCert
    /\ gets = <<>>
    /\ resps = <<>>
    /\ defers = <<>>
    /\ stdout = <<>>
    /\ stderr = <<>>
    /\ queries = <<>>
    /\ exit = Running
    /\ input = <<>>
    /\ loaded = NotLoaded

(* flag.NArg() < 2: flag.Usage(), os.Exit(1) *)
MainUsage ==
    /\ pc = "start"
    /\ Len(args) < 2
    /\ stdout' = Append(stdout, Usage)
    /\ exit' = <<1>>
    /\ pc' = "exited"
    /\ UNCHANGED <<args, cert, issuer, err, i, issCert, gets, resps, defers,
                   stderr, queries, input, loaded>>

(* cert, err := readCertificate(os.Args[2]) *)
ReadCertificate ==
    /\ pc = "start"
    /\ Len(args) >= 2
    /\ \E f \in Files :
         LET r == readCertificate(f)
         IN  /\ cert' = r.cert
             /\ err' = r.err
             /\ stderr' = stderr \o r.log
    /\ pc' = "read_ret"
    /\ UNCHANGED <<args, issuer, i, issCert, gets, resps, defers, stdout,
                   queries, exit, input, loaded>>

(* main going on to the issuer whatever readCertificate returned *)
MainReadFailedIgnored ==
    /\ pc = "read_ret"
    /\ err # Nil
    /\ pc' = "iss_loop"
    /\ i' = 1
    /\ issCert' = NoCert
    /\ err' = Nil
    /\ UNCHANGED <<args, cert, issuer, gets, resps, defers, stdout, stderr,
                   queries, exit, input, loaded>>

(* if err != nil after readCertificate: print, os.Exit(1) *)
MainReadFailed ==
    /\ pc = "read_ret"
    /\ err # Nil
    /\ stderr' = Append(stderr, Line("main", err))
    /\ exit' = <<1>>
    /\ pc' = "exited"
    /\ UNCHANGED <<args, cert, issuer, err, i, issCert, gets, resps, defers,
                   stdout, queries, input, loaded>>

(* issuer, err := getIssuerCertificate(client, cert): entry *)
MainCallIssuer ==
    /\ pc = "read_ret"
    /\ err = Nil
    /\ pc' = "iss_loop"
    /\ i' = 1
    /\ issCert' = NoCert
    /\ UNCHANGED <<args, cert, issuer, err, gets, resps, defers, stdout,
                   stderr, queries, exit, input, loaded>>

(* ------------------------ getIssuerCertificate ------------------------ *)
InLoop == pc = "iss_loop" /\ i <= Len(cert.aia)

(* a failed Get returning errFailedToGetResource instead of continuing *)
IssuerGetErrorFatal ==
    /\ InLoop
    /\ gets' = Append(gets, Got(cert.aia[i], "error", Nil, NoCert))
    /\ issuer' = NoCert
    /\ err' = errFailedToGetResource
    /\ pc' = "iss_ret"
    /\ UNCHANGED <<args, cert, i, issCert, resps, defers, stdout, stderr,
                   queries, exit, input, loaded>>

(* client.Get(url) returns an error: continue with the next URL *)
IssuerGetError ==
    /\ InLoop
    /\ gets' = Append(gets, Got(cert.aia[i], "error", Nil, NoCert))
    /\ i' = i + 1
    /\ UNCHANGED <<pc, args, cert, issuer, err, issCert, resps, defers,
                   stdout, stderr, queries, exit, input, loaded>>

(* the body-read failure returning before the close is deferred *)
IssuerReadBodyErrorLeak ==
    /\ InLoop
    /\ gets' = Append(gets, Got(cert.aia[i], "readfail", Nil, NoCert))
    /\ resps' = Append(resps, 0)
    /\ defers' = <<>>
    /\ issuer' = NoCert
    /\ err' = errFailedToReadResponseBody
    /\ pc' = "iss_ret"
    /\ UNCHANGED <<args, cert, i, issCert, stdout, stderr, queries, exit,
                   input, loaded>>

(* Get succeeds, the close is deferred, ioutil.ReadAll fails:               *)
(* return nil, errFailedToReadResponseBody                                  *)
IssuerReadBodyError ==
    /\ InLoop
    /\ gets' = Append(gets, Got(cert.aia[i], "readfail", Nil, NoCert))
    /\ resps' = RunDefers(Append(resps, 0), Append(defers, Len(resps) + 1))
    /\ defers' = <<>>
    /\ issuer' = NoCert
    /\ err' = errFailedToReadResponseBody
    /\ pc' = "iss_ret"
    /\ UNCHANGED <<args, cert, i, issCert, stdout, stderr, queries, exit,
                   input, loaded>>

(* a body that does not parse skipped like an unreachable URL *)
IssuerParseErrorSkipped ==
    /\ InLoop
    /\ \E body \in Buffers(IssuerCerts) :
         LET r == certificateFromBytes(body)
         IN  /\ r.err # Nil
             /\ gets' = Append(gets, Got(cert.aia[i], "ok", r.err, NoCert))
    /\ resps' = Append(resps, 0)
    /\ defers' = Append(defers, Len(resps) + 1)
    /\ i' = i + 1
    /\ UNCHANGED <<pc, args, cert, issuer, err, issCert, stdout, stderr,
                   queries, exit, input, loaded>>

(* a body that does not parse handing certificateFromBytes' error through *)
IssuerParseErrorPassedThrough ==
    /\ InLoop
    /\ \E body \in Buffers(IssuerCerts) :
         LET r == certificateFromBytes(body)
         IN  /\ r.err # Nil
             /\ gets' = Append(gets, Got(cert.aia[i], "ok", r.err, NoCert))
             /\ err' = r.err
    /\ resps' = RunDefers(Append(resps, 0), Append(defers, Len(resps) + 1))
    /\ defers' = <<>>
    /\ issuer' = NoCert
    /\ issCert' = NoCert
    /\ pc' = "iss_ret"
    /\ UNCHANGED <<args, cert, i, stdout, stderr, queries, exit, input, loaded>>

(* Get and ReadAll succeed, certificateFromBytes(in) fails:                 *)
(* return nil, errNoIssuerCertificate                                       *)
IssuerParseError ==
    /\ InLoop
    /\ \E body \in Buffers(IssuerCerts) :
         LET r == certificateFromBytes(body)
         IN  /\ r.err # Nil
             /\ gets' = Append(gets, Got(cert.aia[i], "ok", r.err, NoCert))
    /\ resps' = RunDefers(Append(resps, 0), Append(defers, Len(resps) + 1))
    /\ defers' = <<>>
    /\ issuer' = NoCert
    /\ issCert' = NoCert
    /\ err' = errNoIssuerCertificate
    /\ pc' = "iss_ret"
    /\ UNCHANGED <<args, cert, i, stdout, stderr, queries, exit, input, loaded>>

(* a parsed certificate that does not end the loop *)
IssuerFoundNoBreak ==
    /\ InLoop
    /\ \E body \in Buffers(IssuerCerts) :
         LET r == certificateFromBytes(body)
         IN  /\ r.err = Nil
             /\ gets' = Append(gets, Got(cert.aia[i], "ok", Nil, r.cert))
             /\ issCert' = r.cert
    /\ resps' = Append(resps, 0)
    /\ defers' = Append(defers, Len(resps) + 1)
    /\ i' = i + 1
    /\ UNCHANGED <<pc, args, cert, issuer, err, stdout, stderr, queries,
                   exit, input, loaded>>

(* Get, ReadAll and certificateFromBytes succeed: issCert is set, break *)
IssuerFound ==
    /\ InLoop
    /\ \E body \in Buffers(IssuerCerts) :
         LET r == certificateFromBytes(body)
         IN  /\ r.err = Nil
             /\ gets' = Append(gets, Got(cert.aia[i], "ok", Nil, r.cert))
             /\ issCert' = r.cert
    /\ resps' = Append(resps, 0)
    /\ defers' = Append(defers, Len(resps) + 1)
    /\ pc' = "iss_post"
    /\ UNCHANGED <<args, cert, issuer, err, i, stdout, stderr, queries,
                   exit, input, loaded>>

(* the end of the function returning issCert with a nil error, nil or not *)
IssuerPostNoCheck ==
    /\ pc = "iss_post" \/ (pc = "iss_loop" /\ i > Len(cert.aia))
    /\ issuer' = issCert
    /\ err' = Nil
    /\ resps' = RunDefers(resps, defers)
    /\ defers' = <<>>
    /\ pc' = "iss_ret"
    /\ UNCHANGED <<args, cert, i, issCert, gets, stdout, stderr, queries,
                   exit, input, loaded>>

(* after the loop: if issCert == nil return errNoIssuerCertificate, else    *)
(* return issCert, nil; the deferred closes run                             *)
IssuerPost ==
    /\ pc = "iss_post" \/ (pc = "iss_loop" /\ i > Len(cert.aia))
    /\ issuer' = issCert
    /\ err' = IF issCert = NoCert THEN errNoIssuerCertificate ELSE Nil
    /\ resps' = RunDefers(resps, defers)
    /\ defers' = <<>>
    /\ pc' = "iss_ret"
    /\ UNCHANGED <<args, cert, i, issCert, gets, stdout, stderr, queries,
                   exit, input, loaded>>

(* ------------------------ main, after the issuer ---------------------- *)
(* if err != nil after getIssuerCertificate: print, os.Exit(1) *)
MainIssuerFailed ==
    /\ pc = "iss_ret"
    /\ err # Nil
    /\ stderr' = Append(stderr, Line("main", err))
    /\ exit' = <<1>>
    /\ pc' = "exited"
    /\ UNCHANGED <<args, cert, issuer, err, i, issCert, gets, resps, defers,
                   stdout, queries, input, loaded>>

(* case "ocsp": getOCSPResponse(client, cert, issuer) is called *)
MainOCSP ==
    /\ pc = "iss_ret"
    /\ err = Nil
    /\ args[1] = "ocsp"
    /\ queries' = Append(queries, "getOCSPResponse")
    /\ pc' = "ocsp"
    /\ UNCHANGED <<args, cert, issuer, err, i, issCert, gets, resps, defers,
                   stdout, stderr, exit, input, loaded>>

(* case "crl": GetCRLResponse(client, cert) is called *)
MainCRL ==
    /\ pc = "iss_ret"
    /\ err = Nil
    /\ args[1] = "crl"
    /\ queries' = Append(queries, "GetCRLResponse")
    /\ pc' = "crl"
    /\ UNCHANGED <<args, cert, issuer, err, i, issCert, gets, resps, defers,
                   stdout, stderr, exit, input, loaded>>

(* default: flag.PrintDefaults() (no flag is defined: it prints nothing),   *)
(* os.Exit(1)                                                               *)
MainDefault ==
    /\ pc = "iss_ret"
    /\ err = Nil
    /\ args[1] \notin {"ocsp", "crl"}
    /\ exit' = <<1>>
    /\ pc' = "exited"
    /\ UNCHANGED <<args, cert, issuer, err, i, issCert, gets, resps, defers,
                   stdout, stderr, queries, input, loaded>>

(* the revocation query returns an error: print, os.Exit(1) *)
QueryFailed ==
    /\ pc \in {"ocsp", "crl"}
    /\ err' = errRevocation
    /\ stderr' = Append(stderr, Line("main", errRevocation))
    /\ exit' = <<1>>
    /\ pc' = "exited"
    /\ UNCHANGED <<args, cert, issuer, i, issCert, gets, resps, defers,
                   stdout, queries, input, loaded>>

(* the revocation query returns a result: it is printed, main returns *)
QueryPrinted ==
    /\ pc \in {"ocsp", "crl"}
    /\ stdout' = Append(stdout, IF pc = "ocsp" THEN "ocsp status" ELSE "crl status")
    /\ exit' = <<0>>
    /\ pc' = "exited"
    /\ UNCHANGED <<args, cert, issuer, err, i, issCert, gets, resps, defers,
                   stderr, queries, input, loaded>>

Next ==
    \/ MainUsage
    \/ ReadCertificate
    \/ MainReadFailed
    \/ MainCallIssuer
    \/ IssuerGetError
    \/ IssuerReadBodyError
    \/ IssuerParseError
    \/ IssuerFound
    \/ IssuerPost
    \/ MainIssuerFailed
    \/ MainOCSP
    \/ MainCRL
    \/ MainDefault
    \/ QueryFailed
    \/ QueryPrinted

Spec == Init /\ [][Next]_vars

(* --------------------- certificateFromBytes alone --------------------- *)
InitLoad ==
    /\ pc = "load"
    /\ args = <<>>
    /\ cert = NoCert
    /\ issuer = NoCert
    /\ err = Nil
    /\ i = 1
    /\ issCert = NoCert
    /\ gets = <<>>
    /\ resps = <<>>
    /\ defers = <<>>
    /\ stdout = <<>>
    /\ stderr = <<>>
    /\ queries = <<>>
    /\ exit = Running
    /\ input \in Buffers(IssuerCerts)
    /\ loaded = NotLoaded

LoadCertificate ==
    /\ pc = "load"
    /\ LET r == certificateFromBytes(input)
       IN  loaded' = [done |-> TRUE, cert |-> r.cert, err |-> r.err, parsed |-> r.parsed]
    /\ pc' = "loaded"
    /\ UNCHANGED <<args, cert, issuer, err, i, issCert, gets, resps, defers,
                   stdout, stderr, queries, exit, input>>

NextLoad == LoadCertificate

SpecLoad == InitLoad /\ [][NextLoad]_vars

(* ------------------------------ properties ---------------------------- *)
IssuerReturned == pc \in {"iss_ret", "ocsp", "crl"} \/ (pc = "exited" /\ cert # NoCert)
Good(k) == gets[k].status = "ok" /\ gets[k].cert # NoCert
ParseFailed(k) == gets[k].status = "ok" /\ gets[k].cerr # Nil
AllUnreachable == \A k \in 1..Len(gets) : gets[k].status = "error"
NonCertFirst(data) ==
    \E k \in 1..Len(data) :
        /\ data[k].kind = "pem"
        /\ data[k].type # "CERTIFICATE"
        /\ \A j \in 1..(k - 1) : data[j].kind # "pem"
CertFirst(data, b) ==
    \E k \in 1..Len(data) :
        /\ data[k].kind = "pem"
        /\ data[k].type = "CERTIFICATE"
        /\ data[k].bytes = b
        /\ \A j \in 1..(k - 1) : data[j].kind # "pem"
NoArmor(data) == \A k \in 1..Len(data) : data[k].kind # "pem"

(* C1: the GETs issued are the URLs of cert.IssuingCertificateURL in list   *)
(* order, without gaps; the first URL whose GET succeeds and whose body     *)
(* parses is the last GET ever issued, every GET before it failed at the    *)
(* network, and getIssuerCertificate returns the certificate parsed from it *)
C1_FirstGoodUrlWins ==
    /\ Len(gets) <= Len(cert.aia)
    /\ \A k \in 1..Len(gets) : gets[k].url = cert.aia[k]
    /\ \A k \in 1..Len(gets) :
         Good(k) =>
            /\ Len(gets) = k
            /\ \A j \in 1..(k - 1) : gets[j].status = "error"
            /\ IssuerReturned => issuer = gets[k].cert

C1_Witness ==
    /\ pc = "iss_ret"
    /\ Len(gets) = 2
    /\ gets[1].status = "error"
    /\ Good(2)
    /\ issuer = gets[2].cert
    /\ err = Nil

(* C2, as claimed: a Get error and a body-read failure are both skipped:    *)
(* after either, the next URL of the list is tried                          *)
C2_Original ==
    IssuerReturned =>
        \A k \in 1..Len(gets) :
            (gets[k].status \in {"error", "readfail"} /\ k < Len(cert.aia))
                => Len(gets) > k

(* C2, amended: a Get error is skipped and the next URL is tried, so a      *)
(* later good URL still resolves the issuer; a body-read failure ends the   *)
(* resolution with errFailedToReadResponseBody and no later GET             *)
C2_GetErrorSkippedReadErrorFatal ==
    /\ IssuerReturned =>
         \A k \in 1..Len(gets) :
            (gets[k].status = "error" /\ k < Len(cert.aia)) => Len(gets) > k
    /\ \A k \in 1..Len(gets) :
         gets[k].status = "readfail" =>
            /\ Len(gets) = k
            /\ IssuerReturned
            /\ issuer = NoCert
            /\ err = errFailedToReadResponseBody

C2_Witness ==
    /\ pc = "iss_ret"
    /\ Len(gets) = 2
    /\ gets[1].status = "error"
    /\ gets[2].status = "readfail"
    /\ err = errFailedToReadResponseBody

(* C3: a fetched body that does not parse as a certificate ends the         *)
(* resolution at once: an error and no issuer certificate are returned and  *)
(* no GET follows, whatever the list still holds                            *)
C3_ParseFailureFatal ==
    \A k \in 1..Len(gets) :
        ParseFailed(k) =>
            /\ Len(gets) = k
            /\ IssuerReturned
            /\ issuer = NoCert
            /\ err # Nil
            /\ queries = <<>>

C3_Witness ==
    /\ pc = "iss_ret"
    /\ Len(cert.aia) = 2
    /\ Len(gets) = 1
    /\ gets[1].status = "ok"
    /\ gets[1].cerr = errNoCertificate
    /\ issuer = NoCert

(* C4: with an empty IssuingCertificateURL list getIssuerCertificate        *)
(* returns an error and no certificate, and no Get or Do is ever issued     *)
C4_EmptyListFailsWithoutNetwork ==
    (cert # NoCert /\ cert.aia = <<>>) =>
        /\ gets = <<>>
        /\ queries = <<>>
        /\ IssuerReturned => (issuer = NoCert /\ err # Nil)

C4_Witness ==
    /\ pc = "iss_ret"
    /\ cert # NoCert
    /\ cert.aia = <<>>
    /\ err = errNoIssuerCertificate
    /\ gets = <<>>

(* C5, as claimed: the empty list fails with one error value, and the       *)
(* all-unreachable and the parse failure each fail with another             *)
C5_Original ==
    (pc = "iss_ret" /\ err # Nil) =>
        /\ cert.aia = <<>> => err = errNoIssuerCertificate
        /\ (cert.aia # <<>> /\ AllUnreachable) => err # errNoIssuerCertificate
        /\ (gets # <<>> /\ ParseFailed(Len(gets))) => err # errNoIssuerCertificate

(* C5, amended: the empty list, the list whose URLs are all unreachable and *)
(* the body that does not parse all fail with the one value                 *)
(* errNoIssuerCertificate; only the body-read failure has its own value     *)
C5_OneErrorForThreeKinds ==
    (pc = "iss_ret" /\ err # Nil) =>
        /\ issuer = NoCert
        /\ (gets # <<>> /\ gets[Len(gets)].status = "readfail")
              => err = errFailedToReadResponseBody
        /\ (gets = <<>> \/ gets[Len(gets)].status # "readfail")
              => err = errNoIssuerCertificate

C5_Witness ==
    /\ pc = "iss_ret"
    /\ Len(cert.aia) = 2
    /\ Len(gets) = 2
    /\ AllUnreachable
    /\ err = errNoIssuerCertificate

(* C6: when the first PEM block of the input has a label other than         *)
(* CERTIFICATE, certificateFromBytes returns errNoCertificate and hands     *)
(* nothing to x509.ParseCertificate; what it does hand over is the payload  *)
(* of a first block labelled CERTIFICATE or the whole of an input without   *)
(* armor                                                                    *)
C6_NonCertificateBlockRejected ==
    loaded.done =>
        /\ NonCertFirst(input) =>
              /\ loaded.err = errNoCertificate
              /\ loaded.cert = NoCert
              /\ loaded.parsed = <<>>
        /\ loaded.parsed # <<>> =>
              /\ Len(loaded.parsed) = 1
              /\ \/ NoArmor(input) /\ loaded.parsed[1] = input
                 \/ CertFirst(input, loaded.parsed[1])

C6_Witness ==
    /\ loaded.done
    /\ Len(input) = 2
    /\ input[1] = Junk
    /\ input[2].kind = "pem"
    /\ input[2].type = "PRIVATE KEY"
    /\ input[2].bytes[1].kind = "der"
    /\ loaded.err = errNoCertificate

(* C7, as claimed: a run with fewer than two arguments or with a subcommand *)
(* other than ocsp and crl prints the usage message and exits non-zero      *)
C7_Original ==
    (exit # Running /\ (Len(args) < 2 \/ args[1] \notin {"ocsp", "crl"})) =>
        /\ \E k \in 1..Len(stdout) : stdout[k] = Usage
        /\ exit # <<0>>

(* C8: every response obtained from a successful Get has its body closed    *)
(* exactly once by the time getIssuerCertificate has returned, and never    *)
(* more than once                                                           *)
C8_BodiesClosedOnce ==
    /\ Len(resps) = Cardinality({k \in 1..Len(gets) : gets[k].status # "error"})
    /\ \A k \in 1..Len(resps) : resps[k] <= 1
    /\ IssuerReturned => \A k \in 1..Len(resps) : resps[k] = 1

C8_Witness ==
    /\ pc = "iss_ret"
    /\ Len(gets) = 2
    /\ gets[2].status = "readfail"
    /\ Len(resps) = 1
    /\ resps[1] = 1

(* C9, as claimed: no core operation writes to the error stream, and a      *)
(* failing run emits exactly one [error] line, written by main              *)
C9_Original ==
    /\ \A k \in 1..Len(stderr) : stderr[k].by = "main"
    /\ (exit = <<1>> /\ err # Nil) => Len(stderr) = 1

(* C9, amended: getIssuerCertificate and certificateFromBytes write         *)
(* nothing, but readCertificate writes an [error] line with the cause of    *)
(* its failure before it returns; a failed load therefore emits two [error] *)
(* lines, the second by main, and a failed issuer resolution exactly one,   *)
(* by main                                                                  *)
C9_LoadFailureLoggedTwice ==
    /\ pc = "read_ret" =>
          IF err = Nil THEN stderr = <<>>
          ELSE Len(stderr) = 1 /\ stderr[1].by = "readCertificate"
    /\ pc \in {"iss_loop", "iss_post", "iss_ret", "ocsp", "crl"} => stderr = <<>>
    /\ (exit = <<1>> /\ err = errFailedToReadCertificate) =>
          /\ Len(stderr) = 2
          /\ stderr[1].by = "readCertificate"
          /\ stderr[2] = Line("main", err)
    /\ (exit = <<1>> /\ err \in {errNoIssuerCertificate, errFailedToReadResponseBody}) =>
          stderr = <<Line("main", err)>>

C9_Witness ==
    /\ exit = <<1>>
    /\ Len(stderr) = 2
    /\ stderr[1] = Line("readCertificate", errNoCertificate)
    /\ stderr[2] = Line("main", errFailedToReadCertificate)

(* C10: no issuer GET is issued and getIssuerCertificate is not entered     *)
(* before readCertificate has returned a certificate; no revocation query   *)
(* is started before getIssuerCertificate has returned one; a run whose     *)
(* load or issuer resolution failed exits non-zero without any query        *)
C10_LoadThenIssuerThenQuery ==
    /\ (gets # <<>> \/ pc \in {"iss_loop", "iss_post", "iss_ret", "ocsp", "crl"})
          => cert # NoCert
    /\ (queries # <<>> \/ pc \in {"ocsp", "crl"})
          => (cert # NoCert /\ issuer # NoCert /\ Len(queries) = 1)
    /\ (pc = "exited" /\ Len(args) >= 2 /\ (cert = NoCert \/ issuer = NoCert))
          => (exit = <<1>> /\ queries = <<>>)
    /\ (pc = "exited" /\ cert = NoCert) => gets = <<>>

C10_Witness ==
    /\ pc = "crl"
    /\ Len(gets) = 2
    /\ issuer # NoCert
    /\ queries = <<"GetCRLResponse">>

====
